---- MODULE Spec2Model ----
(***************************************************************************)
(* Shoot cache manager of api/server.js: the in-memory shoots cache, its   *)
(* on-disk snapshot, the single-flight background refresh and the          *)
(* GET /api/shoots handler, as a state machine over the Node.js event loop *)
(* (one action per macrotask turn, one per promise continuation).          *)
(***************************************************************************)
EXTENDS Integers, Sequences, FiniteSets, TLC

VARIABLES
    now,                  \* Date.now(), in milliseconds
    shootsCache,          \* let shootsCache = {updated_at, shoots, source_count}
    shootsRefreshPromise, \* let shootsRefreshPromise: NoPromise or a promise id
    disk,                 \* contents of SHOOTS_CACHE_FILE
    runs,                 \* the fetchLatestShoots runs awaiting a provider page
    reqs,                 \* the GET /api/shoots handlers at their await, in the
                          \* order they reached it
    response,             \* the HTTP response written by the last step, if any
    settled,              \* the refresh settled by the last step, if any
    handled,              \* the request handled by the last step, if any
    lastFetched,          \* the value loadShootsCache or the last finished
                          \* fetchLatestShoots produced
    API_TOKEN,            \* process.env.ARYEO_API_TOKEN || ""
    fetched,              \* the orders a traced fetchLatestShoots run had
                          \* fetched when it returned, in fetch order
    call,                 \* the fetchAryeoWithIncludeFallback call under way
    attempts,             \* the fetchAryeo calls that call has made, in
                          \* order: include value ("" for none), whether a
                          \* request was sent, and the error it ended in
    pipeline,             \* contents of PIPELINE_FILE
    WEBHOOK_SECRET,       \* process.env.WEBHOOK_SECRET || ""
    deliveries,           \* the webhook POSTs whose body is being read
    posted,               \* the number of webhook POSTs received
    record,               \* the argument of a call of normalizeShoot or
                          \* sanitizeShootMedia made on its own
    result                \* what that call computed and returned

\* What no step of the cache manager changes
providerVars == <<API_TOKEN, fetched, call, attempts>>
pipelineVars == <<pipeline, WEBHOOK_SECRET, deliveries, posted>>
normalizerVars == <<record, result>>
otherVars == <<providerVars, pipelineVars, normalizerVars>>

vars == <<now, shootsCache, shootsRefreshPromise, disk, runs, reqs, response,
          settled, handled, lastFetched, otherVars>>

----------------------------------------------------------------------------
(* Configuration and bounds *)

SHOOTS_CACHE_TTL_SECONDS == 60
SHOOTS_CACHE_FETCH_PAGE_SIZE == 2
SHOOTS_CACHE_MAX_PAGES == 2
DefaultLimit == 24
MaxLimit == 100
MaxPhotos == 24
MaxExcerpt == 120
DefaultLeadsLimit == 200
MaxLeadsLimit == 1000

MaxRequests == 2
MaxWebhooks == 2
MaxListed == 2
MaxFields == 2
MaxCollected == 3

TtlMs == SHOOTS_CACHE_TTL_SECONDS * 1000

\* The instants the clock is observed at: process start, and one second before,
\* at, and one second after one TTL has passed.
TimePoints == {0, TtlMs - 1000, TtlMs, TtlMs + 1000}

----------------------------------------------------------------------------
(* Timestamps: ISO strings, null, and strings Date cannot parse *)

NullTime == [kind |-> "null", ms |-> 0]
GarbageTime == [kind |-> "garbage", ms |-> 0]

\* new Date(ms).toISOString()
ToISOString(ms) == [kind |-> "iso", ms |-> ms]

\* new Date(value).getTime(): NaN for a string that is no date
ParseDate(value) ==
    IF value.kind = "iso" THEN [nan |-> FALSE, ms |-> value.ms]
                          ELSE [nan |-> TRUE, ms |-> 0]

\* JavaScript truthiness of a timestamp field (null is falsy, a string is truthy)
Truthy(value) == value.kind # "null"

----------------------------------------------------------------------------
(* Image URLs, by the parts canonicalImageKey and looksLikeImageUrl read *)

\* A string value: whether it starts with http(s)://, its hostname, the file
\* name in its path without the suffixes below, a UUID it holds ("" if none),
\* a -WxH suffix, a _thumb.._xl suffix, its extension, and whether its
\* query holds a format hint
EmptyUrl == [http |-> FALSE, host |-> "", name |-> "", uuid |-> "", sized |-> FALSE,
             variant |-> "", ext |-> "", hint |-> FALSE]

ImageExts == {"jpg", "jpeg", "png", "webp", "gif", "avif"}
NonImageExts == {"mp4", "mov", "pdf", "zip"}

\* looksLikeImageUrl(value)
LooksLikeImageUrl(url) ==
    /\ url.http
    /\ url.ext \notin NonImageExts
    /\ (url.ext \in ImageExts \/ url.hint)

\* canonicalImageKey(value): "" for "", uuid:<uuid> for a value holding a UUID,
\* hostname + path with the size and variant suffixes stripped for a URL, and
\* the value itself for any other string
CanonicalImageKey(url) ==
    IF url = EmptyUrl THEN <<>>
    ELSE IF url.uuid # "" THEN <<"uuid", url.uuid>>
    ELSE IF url.http THEN <<url.host, url.name, url.ext>>
    ELSE <<"raw", url>>

\* String.prototype.includes on the lowercased URL, for the words scored
Mentions(url, word) ==
    \/ url.variant = word
    \/ <<url.name, word>> \in { <<"a_original", "original">> }

\* imageQualityScore(url)
ImageQualityScore(url) ==
    (IF Mentions(url, "original") \/ Mentions(url, "full") THEN 40 ELSE 0)
    + (IF Mentions(url, "large") \/ Mentions(url, "xl") THEN 20 ELSE 0)
    + (IF Mentions(url, "medium") THEN 10 ELSE 0)
    - (IF Mentions(url, "thumb") \/ Mentions(url, "thumbnail") \/ Mentions(url, "small")
       THEN 20 ELSE 0)

\* Faulty variant: a key already seen is kept again
RECURSIVE KeepsDuplicates(_, _, _)
KeepsDuplicates(photos, thumbKey, acc) ==
    IF photos = <<>> THEN acc
    ELSE LET value == Head(photos)
             key == CanonicalImageKey(value)
             skip == \/ ~LooksLikeImageUrl(value)
                     \/ key = <<>>
                     \/ key = thumbKey
         IN KeepsDuplicates(Tail(photos), thumbKey,
                            IF skip THEN acc ELSE Append(acc, value))

\* The loop over candidatePhotos: the first image of every key that is not the
\* thumbnail's
RECURSIVE UniquePhotos(_, _, _)
UniquePhotos(photos, thumbKey, acc) ==
    IF photos = <<>> THEN acc
    ELSE LET value == Head(photos)
             key == CanonicalImageKey(value)
             skip == \/ ~LooksLikeImageUrl(value)
                     \/ key = <<>>
                     \/ key = thumbKey
                     \/ \E i \in 1..Len(acc) : CanonicalImageKey(acc[i]) = key
         IN UniquePhotos(Tail(photos), thumbKey,
                         IF skip THEN acc ELSE Append(acc, value))

Take(seq, n) == SubSeq(seq, 1, IF n < Len(seq) THEN n ELSE Len(seq))

\* Faulty variant: a thumbnail that is set is kept, image URL or not
SanitizeKeepsThumbnail(shoot) ==
    LET rawThumb == shoot.thumbnail_url
        thumbKey == CanonicalImageKey(rawThumb)
        photos == Take(UniquePhotos(shoot.photos, thumbKey, <<>>), MaxPhotos)
        thumbnailUrl == IF rawThumb # EmptyUrl THEN rawThumb
                        ELSE IF photos # <<>> THEN photos[1] ELSE EmptyUrl
    IN [shoot EXCEPT
          !.thumbnail_url = thumbnailUrl,
          !.photos = IF thumbnailUrl # EmptyUrl
                     THEN SelectSeq(photos, LAMBDA v :
                            CanonicalImageKey(v) # CanonicalImageKey(thumbnailUrl))
                     ELSE photos]

\* Faulty variant: the photo that becomes the thumbnail stays in photos
SanitizeKeepsFirstPhoto(shoot) ==
    LET rawThumb == shoot.thumbnail_url
        thumbKey == CanonicalImageKey(rawThumb)
        photos == Take(UniquePhotos(shoot.photos, thumbKey, <<>>), MaxPhotos)
        thumbnailUrl == IF LooksLikeImageUrl(rawThumb) THEN rawThumb
                        ELSE IF photos # <<>> THEN photos[1] ELSE EmptyUrl
    IN [shoot EXCEPT !.thumbnail_url = thumbnailUrl, !.photos = photos]

\* sanitizeShootMedia(shoot)
SanitizeShootMedia(shoot) ==
    LET rawThumb == shoot.thumbnail_url
        thumbKey == CanonicalImageKey(rawThumb)
        photos == Take(UniquePhotos(shoot.photos, thumbKey, <<>>), MaxPhotos)
        thumbnailUrl == IF LooksLikeImageUrl(rawThumb) THEN rawThumb
                        ELSE IF photos # <<>> THEN photos[1] ELSE EmptyUrl
    IN [shoot EXCEPT
          !.thumbnail_url = thumbnailUrl,
          !.photos = IF thumbnailUrl # EmptyUrl
                     THEN SelectSeq(photos, LAMBDA v :
                            CanonicalImageKey(v) # CanonicalImageKey(thumbnailUrl))
                     ELSE photos]

----------------------------------------------------------------------------
(* Provider orders and their normalization *)

T1 == ToISOString(1000)
T2 == ToISOString(2000)

\* The orders the provider can return: two ids, one of them in two versions.
\* `fields` are the string properties of the order in Object.entries order,
\* each at the top level or alone in a nested object; these orders have none.
Orders ==
    { [id |-> "A", created_at |-> T1, fields |-> <<>>],
      [id |-> "B", created_at |-> T2, fields |-> <<>>],
      [id |-> "A", created_at |-> T2, fields |-> <<>>] }

\* JavaScript values an address can be read from: undefined or null, a string,
\* and an object, held by its `address` property, its six address properties
\* [street_address, street, address_1, city, state, postal_code] ("" for one
\* that is missing) and its JSON text
NoValue == [kind |-> "none"]
Text(text) == [kind |-> "string", text |-> text]
Obj(address, parts, json) ==
    [kind |-> "object", address |-> address, parts |-> parts, json |-> json]
NoParts == <<"", "", "", "", "", "">>

\* {}
EmptyObject == Obj(NoValue, NoParts, "{}")

\* JavaScript truthiness of such a value
IsTruthy(value) ==
    \/ value.kind = "object"
    \/ value.kind = "string" /\ value.text # ""

\* pieces.join(", ")
RECURSIVE Join(_, _)
Join(pieces, separator) ==
    IF Len(pieces) = 0 THEN ""
    ELSE IF Len(pieces) = 1 THEN pieces[1]
    ELSE pieces[1] \o separator \o Join(Tail(pieces), separator)

\* JSON.stringify(raw).slice(0, 120)
JsonExcerpt(text) ==
    SubSeq(text, 1, IF Len(text) < MaxExcerpt THEN Len(text) ELSE MaxExcerpt)

\* normalizeAddress(raw)
NormalizeAddress(raw) ==
    IF ~IsTruthy(raw) THEN "Address unavailable"
    ELSE IF raw.kind = "string" THEN raw.text
    ELSE LET pieces == SelectSeq(raw.parts, LAMBDA piece : piece # "")
         IN IF Len(pieces) > 0 THEN Join(pieces, ", ")
            ELSE JsonExcerpt(raw.json)

\* order?.listing, order?.address, order?.scheduled_at, order?.updated_at:
\* `missing` (undefined) when the order lacks the property
Property(order, name, missing) ==
    IF name \in DOMAIN order THEN order[name] ELSE missing

\* listing?.address || order?.address || listing, with
\* listing = order?.listing || {} (order.property is not modelled)
AddressSource(listingValue, orderAddress) ==
    LET listing == IF IsTruthy(listingValue) THEN listingValue ELSE EmptyObject
        listingAddress == IF listing.kind = "object" THEN listing.address ELSE NoValue
    IN IF IsTruthy(listingAddress) THEN listingAddress
       ELSE IF IsTruthy(orderAddress) THEN orderAddress
       ELSE listing

\* candidateKeys of pickImage, in order
CandidateKeys == <<"thumbnail_url", "cover_photo_url", "hero_image_url", "image_url", "url">>

\* pickImage(order): the first candidate key of the order whose value is an
\* http(s) string, else the same search in each nested object in turn
PickImage(fields) ==
    LET top == { k \in 1..Len(CandidateKeys) :
                   \E i \in 1..Len(fields) :
                      /\ ~fields[i].nested
                      /\ fields[i].key = CandidateKeys[k]
                      /\ fields[i].value.http }
        nested == { i \in 1..Len(fields) :
                      /\ fields[i].nested
                      /\ \E k \in 1..Len(CandidateKeys) : fields[i].key = CandidateKeys[k]
                      /\ fields[i].value.http }
    IN IF top # {}
       THEN LET k == CHOOSE k \in top : \A j \in top : k <= j
                i == CHOOSE i \in 1..Len(fields) :
                        ~fields[i].nested /\ fields[i].key = CandidateKeys[k]
            IN fields[i].value
       ELSE IF nested # {}
       THEN fields[CHOOSE i \in nested : \A j \in nested : i <= j].value
       ELSE EmptyUrl

\* Faulty variant: the candidate visited last replaces the one stored
RECURSIVE CollectLastVisited(_, _)
CollectLastVisited(fields, results) ==
    IF fields = <<>> THEN results
    ELSE LET value == Head(fields).value
             dedupeKey == CanonicalImageKey(value)
             next == [key |-> dedupeKey, url |-> value, score |-> ImageQualityScore(value)]
             at == { i \in 1..Len(results) : results[i].key = dedupeKey }
         IN CollectLastVisited(Tail(fields),
               IF ~LooksLikeImageUrl(value) \/ dedupeKey = <<>> THEN results
               ELSE IF at = {} THEN Append(results, next)
               ELSE [i \in 1..Len(results) |-> IF i \in at THEN next ELSE results[i]])

\* results.set(dedupeKey, next) when the key is new or next.score >= current.score
RECURSIVE CollectImageUrls(_, _)
CollectImageUrls(fields, results) ==
    IF fields = <<>> THEN results
    ELSE LET value == Head(fields).value
             dedupeKey == CanonicalImageKey(value)
             next == [key |-> dedupeKey, url |-> value, score |-> ImageQualityScore(value)]
             at == { i \in 1..Len(results) : results[i].key = dedupeKey }
         IN CollectImageUrls(Tail(fields),
               IF ~LooksLikeImageUrl(value) \/ dedupeKey = <<>> THEN results
               ELSE IF at = {} THEN Append(results, next)
               ELSE IF next.score >= results[CHOOSE i \in at : TRUE].score
               THEN [i \in 1..Len(results) |-> IF i \in at THEN next ELSE results[i]]
               ELSE results)

\* .sort((a, b) => b.score - a.score): stable, highest score first
RECURSIVE SortByScore(_)
SortByScore(entries) ==
    IF entries = <<>> THEN <<>>
    ELSE LET best == CHOOSE i \in 1..Len(entries) :
                        /\ \A j \in 1..Len(entries) : entries[j].score <= entries[i].score
                        /\ \A j \in 1..(i - 1) : entries[j].score < entries[i].score
         IN <<entries[best]>> \o
            SortByScore(SubSeq(entries, 1, best - 1) \o
                        SubSeq(entries, best + 1, Len(entries)))

\* normalizeShoot(order); the appointment properties read before
\* order.scheduled_at and the status are not modelled
NormalizeShoot(order) ==
    LET sorted == SortByScore(CollectImageUrls(order.fields, <<>>))
    IN SanitizeShootMedia(
        [id |-> IF order.id # "" THEN order.id ELSE "unknown",
         address |-> NormalizeAddress(
                        AddressSource(Property(order, "listing", NoValue),
                                      Property(order, "address", NoValue))),
         scheduled_at |-> IF Truthy(Property(order, "scheduled_at", NullTime))
                          THEN order.scheduled_at ELSE order.created_at,
         created_at |-> order.created_at,
         updated_at |-> Property(order, "updated_at", NullTime),
         thumbnail_url |-> PickImage(order.fields),
         photos |-> Take([i \in 1..Len(sorted) |-> sorted[i].url], MaxPhotos)])

\* Faulty variant: created_at alone decides
SortTimestampCreated(shoot) ==
    IF ParseDate(shoot.created_at).nan THEN 0 ELSE ParseDate(shoot.created_at).ms

\* first candidate of [scheduled_at, updated_at, created_at] that parses, else 0
GetShootSortTimestamp(shoot) ==
    LET cands == <<shoot.scheduled_at, shoot.updated_at, shoot.created_at>>
        ok == { i \in 1..3 : Truthy(cands[i]) /\ ~ParseDate(cands[i]).nan }
    IN IF ok = {} THEN 0
       ELSE ParseDate(cands[CHOOSE i \in ok : \A j \in ok : i <= j]).ms

\* Array.prototype.sort with (a, b) => ts(b) - ts(a): stable, descending
RECURSIVE InsertSorted(_, _)
InsertSorted(sorted, shoot) ==
    IF sorted = <<>> THEN <<shoot>>
    ELSE IF GetShootSortTimestamp(Head(sorted)) >= GetShootSortTimestamp(shoot)
         THEN <<Head(sorted)>> \o InsertSorted(Tail(sorted), shoot)
         ELSE <<shoot>> \o sorted

RECURSIVE SortShoots(_)
SortShoots(seq) ==
    IF seq = <<>> THEN <<>>
    ELSE InsertSorted(SortShoots(SubSeq(seq, 1, Len(seq) - 1)), seq[Len(seq)])

\* Faulty variant: a known id keeps the value it had
MapSetKeepsFirst(ordersById, shoot) ==
    IF \E i \in 1..Len(ordersById) : ordersById[i].id = shoot.id
    THEN ordersById
    ELSE Append(ordersById, shoot)

\* Map.prototype.set on ordersById: a known id keeps its position
MapSet(ordersById, shoot) ==
    IF \E i \in 1..Len(ordersById) : ordersById[i].id = shoot.id
    THEN [i \in 1..Len(ordersById) |->
            IF ordersById[i].id = shoot.id THEN shoot ELSE ordersById[i]]
    ELSE Append(ordersById, shoot)

\* normalizeShoot is a pure function: its values on Orders, the orders most
\* refreshes draw from, are computed once
NormalizedOrders == [order \in Orders |-> NormalizeShoot(order)]

\* const normalized = normalizeShoot(order)
Normalized(order) ==
    IF order \in Orders THEN NormalizedOrders[order] ELSE NormalizeShoot(order)

\* items.forEach((order) => ordersById.set(normalized.id, normalized))
RECURSIVE MergePage(_, _)
MergePage(ordersById, items) ==
    IF items = <<>> THEN ordersById
    ELSE MergePage(MapSet(ordersById, Normalized(Head(items))), Tail(items))

\* The `data` arrays one page of /orders can carry
Pages ==
    UNION { [1..n -> Orders] : n \in 0..SHOOTS_CACHE_FETCH_PAGE_SIZE }

----------------------------------------------------------------------------
(* The cache, its snapshot file and the staleness test *)

EmptyCache == [updated_at |-> NullTime, shoots |-> <<>>, source_count |-> 0]

NoFile == [kind |-> "none", value |-> EmptyCache]
CorruptFile == [kind |-> "corrupt", value |-> EmptyCache]
JsonFile(cache) == [kind |-> "json", value |-> cache]

ShootA == NormalizeShoot([id |-> "A", created_at |-> T1, fields |-> <<>>])

\* The snapshot files the process can find at startup
StartupFiles ==
    { NoFile, CorruptFile,
      JsonFile([updated_at |-> ToISOString(0), shoots |-> <<ShootA>>, source_count |-> 1]),
      JsonFile([updated_at |-> ToISOString(0), shoots |-> <<>>, source_count |-> 0]),
      JsonFile([updated_at |-> GarbageTime, shoots |-> <<ShootA>>, source_count |-> 1]),
      JsonFile([updated_at |-> NullTime, shoots |-> <<ShootA>>, source_count |-> 0]) }

LoadShootsCache(file) ==
    IF file.kind # "json" THEN EmptyCache
    ELSE LET parsed == file.value
         IN [updated_at |-> IF Truthy(parsed.updated_at) THEN parsed.updated_at
                            ELSE NullTime,
             shoots |-> parsed.shoots,
             source_count |-> IF parsed.source_count # 0 THEN parsed.source_count
                              ELSE Len(parsed.shoots)]

\* Number.POSITIVE_INFINITY is [inf |-> TRUE]
ShootsCacheAgeMs(cache, clock) ==
    IF ~Truthy(cache.updated_at) THEN [inf |-> TRUE, ms |-> 0]
    ELSE LET updatedAtMs == ParseDate(cache.updated_at)
         IN IF updatedAtMs.nan THEN [inf |-> TRUE, ms |-> 0]
            ELSE [inf |-> FALSE, ms |-> clock - updatedAtMs.ms]

\* Faulty variant: a strict comparison with the TTL
IsShootsCacheFreshLt(cache, clock) ==
    LET age == ShootsCacheAgeMs(cache, clock)
    IN ~age.inf /\ age.ms < SHOOTS_CACHE_TTL_SECONDS * 1000

IsShootsCacheFresh(cache, clock) ==
    LET age == ShootsCacheAgeMs(cache, clock)
    IN ~age.inf /\ age.ms <= SHOOTS_CACHE_TTL_SECONDS * 1000

----------------------------------------------------------------------------
(* Query parameters of GET /api/shoots *)

\* ?limit= values: absent, or the text given
LimitParams == {"absent", "1"}
RefreshParams == {"absent", "1"}

\* Number(text) for the query texts in use; NaN for text that is no number
NumberOf(text) ==
    CASE text = "-5" -> [nan |-> FALSE, n |-> -5]
      [] text = "0" -> [nan |-> FALSE, n |-> 0]
      [] text = "1" -> [nan |-> FALSE, n |-> 1]
      [] text = "2" -> [nan |-> FALSE, n |-> 2]
      [] text = "100" -> [nan |-> FALSE, n |-> 100]
      [] text = "101" -> [nan |-> FALSE, n |-> 101]
      [] text = "1000" -> [nan |-> FALSE, n |-> 1000]
      [] text = "5000" -> [nan |-> FALSE, n |-> 5000]
      [] OTHER -> [nan |-> TRUE, n |-> 0]

\* Number(url.searchParams.get("limit") || 24)
LimitNumber(param) ==
    IF param = "absent" THEN [nan |-> FALSE, n |-> DefaultLimit]
    ELSE NumberOf(param)

Min(a, b) == IF a < b THEN a ELSE b
Max(a, b) == IF a > b THEN a ELSE b

\* Math.max(1, Math.min(limit, 100)); NaN stays NaN
PageSizeOf(param) ==
    LET limit == LimitNumber(param)
    IN IF limit.nan THEN limit ELSE [nan |-> FALSE, n |-> Max(1, Min(limit.n, MaxLimit))]

\* Array.prototype.slice(0, pageSize): slice(0, NaN) is empty
SliceTo(seq, pageSize) == IF pageSize.nan THEN <<>> ELSE Take(seq, pageSize.n)

----------------------------------------------------------------------------
(* Promises, handlers and the outputs of a step *)

NoPromise == 0


NoResponse == [status |-> 0]
NoSettle == [outcome |-> "none"]
NoHandled == [refresh |-> "none"]
NoCall == [state |-> "none"]
NoPipelineFile == [exists |-> FALSE, lines |-> <<>>]

\* No provider call under way outside the refresh
ProviderAtRest ==
    /\ call = NoCall
    /\ attempts = <<>>

\* No log file, no webhook secret, no delivery
PipelineAtRest ==
    /\ pipeline = NoPipelineFile
    /\ WEBHOOK_SECRET = ""
    /\ deliveries = {}
    /\ posted = 0

NoRecord == [kind |-> "none"]
NoResult == [step |-> "none"]

\* No call of the normalizer on its own
NormalizerAtRest ==
    /\ record = NoRecord
    /\ result = NoResult

\* const API_TOKEN = process.env.ARYEO_API_TOKEN || "": unset, or a token
Tokens == {"", "token"}

\* Promise continuations run before the event loop takes the next event
MicrotasksPending == \E i \in 1..Len(reqs) : reqs[i].pc = "resuming"

UsedPromises ==
    { run.id : run \in runs } \cup { reqs[i].awaiting : i \in 1..Len(reqs) }
        \cup {shootsRefreshPromise}

FreshPromise == CHOOSE n \in 1..(Cardinality(UsedPromises) + 1) : n \notin UsedPromises

Init ==
    /\ now = 0
    /\ disk \in StartupFiles
    /\ shootsCache = LoadShootsCache(disk)
    /\ lastFetched = shootsCache
    /\ shootsRefreshPromise = NoPromise
    /\ runs = {}
    /\ reqs = <<>>
    /\ response = NoResponse
    /\ settled = NoSettle
    /\ handled = NoHandled
    /\ API_TOKEN \in Tokens
    /\ fetched = <<>>
    /\ ProviderAtRest
    /\ NormalizerAtRest
    /\ PipelineAtRest

\* Time passes between two events
Tick(t) ==
    /\ ~MicrotasksPending
    /\ t > now
    /\ now' = t
    /\ response' = NoResponse
    /\ settled' = NoSettle
    /\ handled' = NoHandled
    /\ UNCHANGED <<shootsCache, shootsRefreshPromise, disk, runs, reqs,
                   lastFetched, otherVars>>

----------------------------------------------------------------------------
(* refreshShootsCacheInBackground *)

\* Faulty variant: the guard never sees the refresh in flight
NeverInFlight(promise) == FALSE

\* if (shootsRefreshPromise) return shootsRefreshPromise;
InFlight(promise) == promise # NoPromise

\* The promise the call returns; a new run starts with the request for page 1
RefreshShootsCacheInBackground ==
    IF InFlight(shootsRefreshPromise)
    THEN UNCHANGED <<shootsRefreshPromise, runs>>
    ELSE /\ shootsRefreshPromise' = FreshPromise
         /\ runs' = runs \cup { [id |-> FreshPromise, page |-> 1, ordersById |-> <<>>,
                                 rows |-> <<>>,
                                 cache0 |-> shootsCache, disk0 |-> disk] }

\* Faulty variant: no .catch, the rejection reaches the awaiting handler
NoCatch(outcome) == IF outcome = "ok" THEN "fulfilled" ELSE "rejected"

\* .catch((error) => console.error(...)): the promise handed out never rejects
Caught(outcome) == "fulfilled"

\* Faulty variant: the marker is cleared by a .then, on success alone
SettleClearingOnSuccess(run, outcome) ==
    /\ shootsRefreshPromise' = IF outcome = "ok" THEN NoPromise
                                ELSE shootsRefreshPromise
    /\ runs' = runs \ {run}
    /\ reqs' = [i \in 1..Len(reqs) |->
                  IF reqs[i].pc = "awaiting" /\ reqs[i].awaiting = run.id
                  THEN [reqs[i] EXCEPT !.pc = "resuming",
                                       !.settledAs = Caught(outcome)]
                  ELSE reqs[i]]
    /\ settled' = [outcome |-> outcome, id |-> run.id, page |-> run.page,
                   cache0 |-> run.cache0, disk0 |-> run.disk0]
    /\ response' = NoResponse
    /\ handled' = NoHandled

\* .finally(() => { shootsRefreshPromise = null; }), then the awaiting handlers
\* are scheduled
Settle(run, outcome) ==
    /\ shootsRefreshPromise' = NoPromise
    /\ runs' = runs \ {run}
    /\ reqs' = [i \in 1..Len(reqs) |->
                  IF reqs[i].pc = "awaiting" /\ reqs[i].awaiting = run.id
                  THEN [reqs[i] EXCEPT !.pc = "resuming",
                                       !.settledAs = Caught(outcome)]
                  ELSE reqs[i]]
    /\ settled' = [outcome |-> outcome, id |-> run.id, page |-> run.page,
                   cache0 |-> run.cache0, disk0 |-> run.disk0]
    /\ response' = NoResponse
    /\ handled' = NoHandled

----------------------------------------------------------------------------
(* fetchLatestShoots, one provider page at a time *)

\* Faulty variant: the loop has no page cap
LastPageUncapped(run, items) ==
    \/ Len(items) = 0
    \/ Len(items) < SHOOTS_CACHE_FETCH_PAGE_SIZE

\* if (!items.length) break; ... if (items.length < PAGE_SIZE) break; page cap
LastPage(run, items) ==
    \/ Len(items) = 0
    \/ Len(items) < SHOOTS_CACHE_FETCH_PAGE_SIZE
    \/ run.page + 1 > SHOOTS_CACHE_MAX_PAGES

NextCache(ordersById) ==
    LET sortedShoots == SortShoots(ordersById)
    IN [updated_at |-> ToISOString(now),
        shoots |-> sortedShoots,
        source_count |-> Len(sortedShoots)]

\* Faulty variant: every page is written into shootsCache.shoots as it arrives
PageMergedIntoCache(run, items) ==
    /\ run \in runs
    /\ ~MicrotasksPending
    /\ API_TOKEN # ""
    /\ ~LastPage(run, items)
    /\ runs' = (runs \ {run}) \cup
                 { [run EXCEPT !.page = @ + 1,
                               !.ordersById = MergePage(run.ordersById, items),
                               !.rows = run.rows \o items] }
    /\ shootsCache' = [shootsCache EXCEPT
                         !.shoots = MergePage(run.ordersById, items)]
    /\ response' = NoResponse
    /\ settled' = NoSettle
    /\ handled' = NoHandled
    /\ UNCHANGED <<now, shootsRefreshPromise, disk, reqs, lastFetched,
                   otherVars>>

\* A full page below the page cap: merge it and request the next page.
\* fetchAryeo sends a request only when API_TOKEN is set.
PageArrives(run, items) ==
    /\ run \in runs
    /\ ~MicrotasksPending
    /\ API_TOKEN # ""
    /\ ~LastPage(run, items)
    /\ runs' = (runs \ {run}) \cup
                 { [run EXCEPT !.page = @ + 1,
                               !.ordersById = MergePage(run.ordersById, items),
                               !.rows = run.rows \o items] }
    /\ response' = NoResponse
    /\ settled' = NoSettle
    /\ handled' = NoHandled
    /\ UNCHANGED <<now, shootsCache, shootsRefreshPromise, disk, reqs,
                   lastFetched, otherVars>>

\* The last page: fetchLatestShoots returns, the cache is replaced and saved
\* (writeFileSync may throw), and the refresh settles
ReplaceAndSave(run, items, saved) ==
    /\ run \in runs
    /\ ~MicrotasksPending
    /\ API_TOKEN # ""
    /\ LastPage(run, items)
    /\ LET nextCache == NextCache(MergePage(run.ordersById, items))
       IN /\ shootsCache' = nextCache
          /\ lastFetched' = nextCache
          /\ disk' = IF saved THEN JsonFile(nextCache) ELSE disk
    /\ Settle(run, IF saved THEN "ok" ELSE "save_failed")
    /\ UNCHANGED now

FetchCompletes(run, items, saved) ==
    /\ ReplaceAndSave(run, items, saved)
    /\ UNCHANGED otherVars

\* The same step, recording every row the run fetched
FetchCompletesTraced(run, items, saved) ==
    /\ ReplaceAndSave(run, items, saved)
    /\ fetched' = run.rows \o items
    /\ UNCHANGED <<API_TOKEN, call, attempts, pipelineVars, normalizerVars>>

\* Faulty variant: the failure handler resets the cache
FetchFailsClearingCache(run) ==
    /\ run \in runs
    /\ ~MicrotasksPending
    /\ shootsCache' = EmptyCache
    /\ Settle(run, "fetch_failed")
    /\ UNCHANGED <<now, disk, lastFetched, otherVars>>

\* fetchAryeoWithIncludeFallback throws on the page awaited: the provider
\* call failed or, with no API_TOKEN, fetchAryeo threw before sending it
FetchFails(run) ==
    /\ run \in runs
    /\ ~MicrotasksPending
    /\ Settle(run, "fetch_failed")
    /\ UNCHANGED <<now, shootsCache, disk, lastFetched, otherVars>>

----------------------------------------------------------------------------
(* handleShoots *)

\* writeJson(res, 200, {shoots, source_count, cache: {...}})
WriteShoots(req, promise, awaited) ==
    LET shoots == SliceTo([i \in 1..Len(shootsCache.shoots) |->
                             SanitizeShootMedia(shootsCache.shoots[i])],
                          PageSizeOf(req.limit))
    IN [status |-> 200,
        shoots |-> shoots,
        source_count |-> IF shootsCache.source_count # 0
                         THEN shootsCache.source_count ELSE Len(shoots),
        updated_at |-> shootsCache.updated_at,
        fresh |-> IsShootsCacheFresh(shootsCache, now),
        refreshing |-> promise # NoPromise,
        ttl_seconds |-> SHOOTS_CACHE_TTL_SECONDS,
        limit |-> req.limit,
        awaited |-> awaited]

\* the router's catch: writeJson(res, 500, {error})
WriteError(req) == [status |-> 500, limit |-> req.limit, awaited |-> TRUE]

\* What the request of this step found and did before its await or response
Handled(refreshParam, called, started, awaited) ==
    [refresh |-> refreshParam,
     sawEmpty |-> shootsCache.shoots = <<>>,
     sawNull |-> ~Truthy(shootsCache.updated_at),
     sawFresh |-> IsShootsCacheFresh(shootsCache, now),
     called |-> called,
     joined |-> called /\ shootsRefreshPromise # NoPromise,
     started |-> started,
     awaited |-> awaited]

\* Faulty variant: the empty-cache branch is never taken
NeverAwait(cache) == FALSE

\* if (!shootsCache.shoots.length) await refreshShootsCacheInBackground();
AwaitsRefresh(cache) == Len(cache.shoots) = 0

\* Faulty variant: a stale cache triggers no refresh
NeverInBackground(cache, clock) == FALSE

\* else if (!isShootsCacheFresh()) refreshShootsCacheInBackground();
RefreshesInBackground(cache, clock) == ~IsShootsCacheFresh(cache, clock)

\* A GET /api/shoots request arrives: the handler up to its await, or to its
\* response when it does not await. The handler never reads ?refresh=.
GetShoots(refreshParam, limitParam) ==
    /\ ~MicrotasksPending
    /\ LET req == [limit |-> limitParam, pc |-> "awaiting", awaiting |-> NoPromise,
                   settledAs |-> "none"]
       IN IF AwaitsRefresh(shootsCache)
          THEN /\ Len(reqs) < MaxRequests
               /\ RefreshShootsCacheInBackground
               /\ reqs' = Append(reqs, [req EXCEPT !.awaiting = shootsRefreshPromise'])
               /\ response' = NoResponse
               /\ handled' = Handled(refreshParam, TRUE, runs' # runs, TRUE)
          ELSE /\ IF RefreshesInBackground(shootsCache, now)
                  THEN RefreshShootsCacheInBackground
                  ELSE UNCHANGED <<shootsRefreshPromise, runs>>
               /\ response' = WriteShoots(req, shootsRefreshPromise', FALSE)
               /\ handled' = Handled(refreshParam,
                                     RefreshesInBackground(shootsCache, now),
                                     runs' # runs, FALSE)
               /\ UNCHANGED reqs
    /\ settled' = NoSettle
    /\ UNCHANGED <<now, shootsCache, disk, lastFetched, otherVars>>

\* The awaited refresh has settled: the handlers go on to their responses, in
\* the order they awaited
Resume ==
    /\ MicrotasksPending
    /\ LET i == CHOOSE k \in 1..Len(reqs) :
                  /\ reqs[k].pc = "resuming"
                  /\ \A j \in 1..(k - 1) : reqs[j].pc # "resuming"
       IN /\ response' = IF reqs[i].settledAs = "fulfilled"
                         THEN WriteShoots(reqs[i], shootsRefreshPromise, TRUE)
                         ELSE WriteError(reqs[i])
          /\ reqs' = SubSeq(reqs, 1, i - 1) \o SubSeq(reqs, i + 1, Len(reqs))
    /\ handled' = NoHandled
    /\ UNCHANGED <<now, shootsCache, shootsRefreshPromise, disk, runs, settled,
                   lastFetched, otherVars>>

----------------------------------------------------------------------------

Next ==
    \/ \E t \in TimePoints : Tick(t)
    \/ \E rp \in RefreshParams, lp \in LimitParams : GetShoots(rp, lp)
    \/ \E run \in runs, items \in Pages : PageArrives(run, items)
    \/ \E run \in runs, items \in Pages, saved \in BOOLEAN :
          FetchCompletes(run, items, saved)
    \/ \E run \in runs : FetchFails(run)
    \/ Resume

Spec == Init /\ [][Next]_vars

----------------------------------------------------------------------------
(* The cache manager when every provider call returns and every promise *)
(* continuation runs *)

\* Requests without parameters, and every way a provider call can end
NextLive ==
    \/ \E t \in TimePoints : Tick(t)
    \/ GetShoots("absent", "absent")
    \/ \E run \in runs, items \in Pages : PageArrives(run, items)
    \/ \E run \in runs, items \in Pages, saved \in BOOLEAN :
          FetchCompletes(run, items, saved)
    \/ \E run \in runs : FetchFails(run)
    \/ Resume

\* await fetchAryeoWithIncludeFallback(...) returns or throws; the event loop
\* runs the continuations of a settled promise
SpecLive ==
    /\ Init
    /\ [][NextLive]_vars
    /\ WF_vars(\E run \in runs :
                  \/ FetchFails(run)
                  \/ \E items \in Pages : PageArrives(run, items)
                  \/ \E items \in Pages, saved \in BOOLEAN :
                        FetchCompletes(run, items, saved))
    /\ WF_vars(Resume)

----------------------------------------------------------------------------
(* One refresh with a configured token, from the first request to the *)
(* responses of the handlers that awaited it, recording the rows fetched *)

Completed == settled.outcome \in {"ok", "save_failed"}

InitFetch ==
    /\ Init
    /\ API_TOKEN # ""

NextFetch ==
    \/ \E t \in TimePoints : ~Completed /\ Tick(t)
    \/ \E lp \in LimitParams : ~Completed /\ GetShoots("absent", lp)
    \/ \E run \in runs, items \in Pages : PageArrives(run, items)
    \/ \E run \in runs, items \in Pages, saved \in BOOLEAN :
          FetchCompletesTraced(run, items, saved)
    \/ Resume

SpecFetch == InitFetch /\ [][NextFetch]_vars

----------------------------------------------------------------------------
(* fetchAryeo and fetchAryeoWithIncludeFallback: one provider call *)

cacheVars == <<now, shootsCache, shootsRefreshPromise, disk, runs, reqs,
               settled, handled, lastFetched>>

\* The cache manager at rest, for the specifications of the other handlers
CacheAtRest ==
    /\ now = 0
    /\ disk = NoFile
    /\ shootsCache = LoadShootsCache(disk)
    /\ lastFetched = shootsCache
    /\ shootsRefreshPromise = NoPromise
    /\ runs = {}
    /\ reqs = <<>>
    /\ settled = NoSettle
    /\ handled = NoHandled
    /\ fetched = <<>>

\* The values ARYEO_ORDER_INCLUDES can take: the default, a configured list,
\* and the empty string a value such as "," is filtered down to
OrderIncludes == {"listing,appointments,items,tags", "listing", ""}

\* The three callers: resource, params.include, fallbackIncludes
CallSites(orderIncludes) ==
    { [resource |-> "/orders", include |-> orderIncludes,
       fallbackIncludes |-> <<"listing,appointments,items", "listing,appointments">>],
      [resource |-> "/orders/:id status", include |-> "listing,appointments",
       fallbackIncludes |-> <<"listing,appointments", "listing">>],
      [resource |-> "/orders/:id detail", include |-> orderIncludes,
       fallbackIncludes |-> <<"listing,appointments,items", "listing,appointments">>] }

\* String.prototype.trim on the include lists in use (none has outer blanks)
Trim(value) == IF value = " " THEN "" ELSE value

RECURSIVE NonBlank(_)
NonBlank(values) ==
    IF values = <<>> THEN <<>>
    ELSE IF Trim(Head(values)) # ""
         THEN <<Trim(Head(values))>> \o NonBlank(Tail(values))
         ELSE NonBlank(Tail(values))

\* Faulty variant: the fallbacks are tried before params.include
FallbacksFirst(include, fallbackIncludes) ==
    NonBlank(fallbackIncludes) \o NonBlank(<<include>>) \o <<"">>

\* includeCandidates: params.include, the fallbacks, then "" (no include)
IncludeCandidates(include, fallbackIncludes) ==
    NonBlank(<<include>>) \o NonBlank(fallbackIncludes) \o <<"">>

MissingToken == "Missing ARYEO_API_TOKEN. Add it to your environment before calling Aryeo."

\* The errors a sent request can end in: `Aryeo API ${status}: ${excerpt}` for
\* a non-2xx response, or the rejection of fetch() itself
ProviderErrors ==
    { "Aryeo API 422: Requested include(s) are invalid",
      "Aryeo API 403: include is not allowed",
      "Aryeo API 500: Internal Server Error",
      "fetch failed" }

NoError == "none"
Replies == {NoError} \cup ProviderErrors

\* String.prototype.includes on these messages
Includes(message, phrase) ==
    <<message, phrase>> \in
        { <<"Aryeo API 422: Requested include(s) are invalid", "Requested include(s)">>,
          <<"Aryeo API 403: include is not allowed", "not allowed">> }

\* Faulty variant: every error counts as an include rejection
AnyErrorRejected(message) == TRUE

\* message.includes("Requested include(s)") || message.includes("not allowed")
IncludeRejected(message) ==
    Includes(message, "Requested include(s)") \/ Includes(message, "not allowed")

\* A caller enters fetchAryeoWithIncludeFallback
StartCall(site) ==
    /\ call.state # "attempting"
    /\ call' = [state |-> "attempting",
                resource |-> site.resource,
                include |-> site.include,
                fallbackIncludes |-> site.fallbackIncludes,
                includeCandidates |->
                    IncludeCandidates(site.include, site.fallbackIncludes),
                index |-> 1,
                lastError |-> NoError,
                thrown |-> NoError]
    /\ attempts' = <<>>
    /\ response' = NoResponse
    /\ UNCHANGED <<cacheVars, API_TOKEN, fetched, pipelineVars, normalizerVars>>

\* if (!includeRejected || !includeValue) throw error;
Throws(message, includeValue) == ~IncludeRejected(message) \/ includeValue = ""

\* One turn of the loop: fetchAryeo with the candidate at `index`, which throws
\* before sending when no token is set, and the catch block on its error
Attempt(reply) ==
    /\ call.state = "attempting"
    /\ LET includeValue == call.includeCandidates[call.index]
           error == IF API_TOKEN = "" THEN MissingToken ELSE reply
       IN /\ attempts' = Append(attempts, [include |-> includeValue,
                                           sent |-> API_TOKEN # "",
                                           error |-> error])
          /\ call' =
               IF error = NoError
               THEN [call EXCEPT !.state = "returned"]
               ELSE IF Throws(error, includeValue)
               THEN [call EXCEPT !.state = "thrown", !.lastError = error,
                                 !.thrown = error]
               ELSE IF call.index < Len(call.includeCandidates)
               THEN [call EXCEPT !.index = @ + 1, !.lastError = error]
               \* throw lastError || new Error("Aryeo request failed")
               ELSE [call EXCEPT !.state = "thrown", !.lastError = error,
                                 !.thrown = error]
    /\ response' = NoResponse
    /\ UNCHANGED <<cacheVars, API_TOKEN, fetched, pipelineVars, normalizerVars>>

InitInclude ==
    /\ CacheAtRest
    /\ API_TOKEN \in Tokens
    /\ ProviderAtRest
    /\ NormalizerAtRest
    /\ PipelineAtRest
    /\ response = NoResponse

NextInclude ==
    \/ \E orderIncludes \in OrderIncludes :
          \E site \in CallSites(orderIncludes) : StartCall(site)
    \/ \E reply \in Replies : Attempt(reply)

SpecInclude == InitInclude /\ [][NextInclude]_vars

----------------------------------------------------------------------------
(* The pipeline log: POST /api/webhooks/aryeo and GET /api/pipeline/leads *)

\* A line of PIPELINE_FILE: the JSON text of a value, or text that does not parse
Stringify(value) == [json |-> TRUE, value |-> value, raw |-> ""]
GarbageLine == [json |-> FALSE, value |-> "", raw |-> "garbage"]

\* try { JSON.parse(line) } catch { {parse_error: true, raw: line} }
ParseLine(line) ==
    IF line.json THEN line.value ELSE [parse_error |-> TRUE, raw |-> line.raw]

LogFile(lines) == [exists |-> TRUE, lines |-> lines]

\* The webhook payloads: {} and an order event
EmptyPayload == [type |-> "", order_id |-> "", status |-> "", address |-> ""]
OrderPayload == [type |-> "order.created", order_id |-> "A", status |-> "scheduled",
                 address |-> "1 Main St"]

\* The request bodies: none, a JSON text, text that is no JSON, and more than
\* 2,000,000 characters
Bodies ==
    { [kind |-> "empty", payload |-> EmptyPayload],
      [kind |-> "json", payload |-> OrderPayload],
      [kind |-> "invalid", payload |-> EmptyPayload],
      [kind |-> "too_large", payload |-> EmptyPayload] }

\* req.headers["x-webhook-secret"]
HeaderSecrets == {"absent", "s3cret", "wrong"}

\* const WEBHOOK_SECRET = process.env.WEBHOOK_SECRET || ""
WebhookSecrets == {"", "s3cret"}

\* pipelineEventFromWebhook(payload) for a payload without a listing
PipelineEventFromWebhook(payload) ==
    [received_at |-> ToISOString(now),
     event_type |-> IF payload.type # "" THEN payload.type ELSE "aryeo.event",
     order_id |-> payload.order_id,
     status |-> payload.status,
     address |-> NormalizeAddress(AddressSource(NoValue, Text(payload.address))),
     raw |-> payload]

\* An event recorded by an earlier run of the server
PastEvent(i) ==
    [received_at |-> ToISOString(0), event_type |-> "aryeo.event", order_id |-> i,
     status |-> "", address |-> "{}", raw |-> EmptyPayload]

\* The log files the process can find at startup: none, an empty one, and
\* one with a damaged line
StartupLogs ==
    { NoPipelineFile,
      LogFile(<<>>),
      LogFile(<<Stringify(PastEvent(1)), GarbageLine, Stringify(PastEvent(3))>>) }

\* Faulty variant: the file is rewritten with the new line
WritePipelineEvent(file, eventObj) == LogFile(<<Stringify(eventObj)>>)

\* fs.appendFileSync(PIPELINE_FILE, `${JSON.stringify(eventObj)}\n`)
AppendPipelineEvent(file, eventObj) ==
    LogFile(Append(file.lines, Stringify(eventObj)))

\* A POST /api/webhooks/aryeo arrives: the router starts readBody
PostWebhook(headerSecret, body) ==
    /\ posted < MaxWebhooks
    /\ LET delivery == [headerSecret |-> headerSecret, body |-> body]
       IN /\ delivery \notin deliveries
          /\ deliveries' = deliveries \cup {delivery}
    /\ posted' = posted + 1
    /\ response' = NoResponse
    /\ UNCHANGED <<cacheVars, providerVars, pipeline, WEBHOOK_SECRET, normalizerVars>>

\* if (WEBHOOK_SECRET && headerSecret !== WEBHOOK_SECRET)
SecretMismatch(secret, headerSecret) == secret # "" /\ headerSecret # secret

\* The status handleWebhook answers with before it appends, 0 if none
Rejection(delivery) ==
    IF delivery.body.kind = "too_large" THEN 500
    ELSE IF SecretMismatch(WEBHOOK_SECRET, delivery.headerSecret) THEN 401
    ELSE IF delivery.body.kind = "invalid" THEN 400
    ELSE 0

\* The body of a delivery has been read (or readBody has rejected): the
\* router's catch or handleWebhook answers; appendFileSync may throw
HandleWebhook(delivery, written) ==
    /\ delivery \in deliveries
    /\ deliveries' = deliveries \ {delivery}
    /\ LET status == IF Rejection(delivery) # 0 THEN Rejection(delivery)
                     ELSE IF written THEN 200 ELSE 500
       IN /\ pipeline' =
               IF status = 200
               THEN AppendPipelineEvent(pipeline,
                        PipelineEventFromWebhook(delivery.body.payload))
               ELSE pipeline
          /\ response' = [status |-> status, endpoint |-> "webhook",
                          delivery |-> delivery, logBefore |-> pipeline]
    /\ UNCHANGED <<cacheVars, providerVars, posted, WEBHOOK_SECRET, normalizerVars>>

\* ?limit= values of GET /api/pipeline/leads
LeadsLimitParams == {"absent", "-5", "0", "1", "2", "1000", "5000", "abc"}

\* Number(url.searchParams.get("limit") || 200)
LeadsLimitNumber(param) ==
    IF param = "absent" THEN [nan |-> FALSE, n |-> DefaultLeadsLimit]
    ELSE NumberOf(param)

\* Faulty variant: the first lines are taken
SliceFirst(lines, limit) ==
    IF limit.nan THEN lines
    ELSE Take(lines, Max(1, Min(limit.n, MaxLeadsLimit)))

\* lines.slice(-Math.max(1, Math.min(limit, 1000))); slice(-NaN) is slice(0)
SliceLast(lines, limit) ==
    IF limit.nan THEN lines
    ELSE LET n == Max(1, Min(limit.n, MaxLeadsLimit))
         IN SubSeq(lines, Max(1, Len(lines) - n + 1), Len(lines))

\* Array.prototype.reverse
Reverse(seq) == [i \in 1..Len(seq) |-> seq[Len(seq) + 1 - i]]

\* readPipelineEvents(limit)
ReadPipelineEvents(file, limit) ==
    IF ~file.exists THEN <<>>
    ELSE LET sliced == SliceLast(file.lines, limit)
         IN Reverse([i \in 1..Len(sliced) |-> ParseLine(sliced[i])])

\* GET /api/pipeline/leads
GetLeads(limitParam) ==
    /\ LET events == ReadPipelineEvents(pipeline, LeadsLimitNumber(limitParam))
       IN response' = [status |-> 200, endpoint |-> "leads", limit |-> limitParam,
                       events |-> events, count |-> Len(events),
                       logBefore |-> pipeline]
    /\ UNCHANGED <<cacheVars, providerVars, normalizerVars, pipeline, deliveries, posted,
                   WEBHOOK_SECRET>>

InitPipeline ==
    /\ CacheAtRest
    /\ ProviderAtRest
    /\ NormalizerAtRest
    /\ API_TOKEN = ""
    /\ pipeline \in StartupLogs
    /\ WEBHOOK_SECRET \in WebhookSecrets
    /\ deliveries = {}
    /\ posted = 0
    /\ response = NoResponse

NextPipeline ==
    \/ \E headerSecret \in HeaderSecrets, body \in Bodies :
          PostWebhook(headerSecret, body)
    \/ \E delivery \in deliveries, written \in BOOLEAN :
          HandleWebhook(delivery, written)
    \/ \E limitParam \in LeadsLimitParams : GetLeads(limitParam)

SpecPipeline == InitPipeline /\ [][NextPipeline]_vars

----------------------------------------------------------------------------
(* The limit parameter of the two list endpoints, on lists longer than the *)
(* defaults and the caps *)

\* A snapshot of n shoots, saved at time 0
SnapshotOf(n) ==
    JsonFile([updated_at |-> ToISOString(0),
              shoots |-> [i \in 1..n |->
                            NormalizeShoot([id |-> ToString(i), created_at |-> T1,
                                            fields |-> <<>>])],
              source_count |-> n])

LimitSnapshots ==
    { SnapshotOf(n) : n \in {1, DefaultLimit - 1, DefaultLimit + 1, MaxLimit + 1} }

LimitLogs ==
    StartupLogs \cup
    { LogFile([i \in 1..n |-> Stringify(PastEvent(i))]) :
         n \in {1, DefaultLeadsLimit + 1, MaxLeadsLimit + 1} }

\* ?limit= values of GET /api/shoots
ShootsLimitParams == {"absent", "-5", "0", "1", "2", "100", "101", "abc"}

InitLimits ==
    /\ now = 0
    /\ \/ disk \in LimitSnapshots /\ pipeline = NoPipelineFile
       \/ disk = SnapshotOf(1) /\ pipeline \in LimitLogs
    /\ shootsCache = LoadShootsCache(disk)
    /\ lastFetched = shootsCache
    /\ shootsRefreshPromise = NoPromise
    /\ runs = {}
    /\ reqs = <<>>
    /\ response = NoResponse
    /\ settled = NoSettle
    /\ handled = NoHandled
    /\ API_TOKEN = "token"
    /\ fetched = <<>>
    /\ ProviderAtRest
    /\ NormalizerAtRest
    /\ WEBHOOK_SECRET = ""
    /\ deliveries = {}
    /\ posted = 0

NextLimits ==
    \/ \E limitParam \in ShootsLimitParams : GetShoots("absent", limitParam)
    \/ \E limitParam \in LeadsLimitParams : GetLeads(limitParam)

SpecLimits == InitLimits /\ [][NextLimits]_vars

----------------------------------------------------------------------------
(* Shoot media: orders with image fields and snapshots saved without *)
(* sanitization, served by GET /api/shoots *)

ImageUrl(name, variant, ext) ==
    [http |-> TRUE, host |-> "cdn", name |-> name, uuid |-> "", sized |-> FALSE,
     variant |-> variant, ext |-> ext, hint |-> FALSE]

\* An image, the same image resized, as a thumbnail and as the original, a
\* second image, one named by a format hint only, two URLs of one UUID, a web
\* page, a video with a format hint, and a string that is no URL
MediaUrls ==
    { ImageUrl("a", "", "jpg"),
      [ImageUrl("a", "", "jpg") EXCEPT !.sized = TRUE],
      ImageUrl("a", "thumb", "jpg"),
      ImageUrl("a_original", "", "jpg"),
      ImageUrl("b", "large", "png"),
      [ImageUrl("c", "", "") EXCEPT !.hint = TRUE],
      [ImageUrl("d", "", "jpg") EXCEPT !.uuid = "u1"],
      [ImageUrl("e", "small", "webp") EXCEPT !.uuid = "u1", !.host = "img"],
      ImageUrl("listing", "", ""),
      [ImageUrl("tour", "", "mp4") EXCEPT !.hint = TRUE],
      [ImageUrl("a", "", "jpg") EXCEPT !.http = FALSE] }

\* n images with n different keys
ManyPhotos(n) == [i \in 1..n |-> ImageUrl(ToString(i), "", "jpg")]

\* The photos lists of a snapshot: short ones over MediaUrls, and lists longer
\* than the cap, one of them with a duplicate in front
PhotoLists ==
    UNION { [1..n -> MediaUrls] : n \in 0..MaxListed }
    \cup { ManyPhotos(MaxPhotos + 1),
           <<ImageUrl("1", "thumb", "jpg")>> \o ManyPhotos(MaxPhotos + 2) }

\* A shoot as a snapshot written before sanitizeShootMedia existed holds it
LegacyShoot(thumbnail, photos) ==
    [id |-> "L", scheduled_at |-> T1, created_at |-> T1, updated_at |-> NullTime,
     thumbnail_url |-> thumbnail, photos |-> photos]

LegacySnapshots ==
    { JsonFile([updated_at |-> ToISOString(0),
                shoots |-> <<LegacyShoot(thumbnail, photos)>>,
                source_count |-> 1]) :
        thumbnail \in MediaUrls \cup {EmptyUrl}, photos \in PhotoLists }

FieldKeys == {"thumbnail_url", "url", "photo"}

\* The values of an order's fields: an image, its thumbnail, its original,
\* a second image, a UUID image and a web page
OrderUrls ==
    { ImageUrl("a", "", "jpg"),
      ImageUrl("a", "thumb", "jpg"),
      ImageUrl("a_original", "", "jpg"),
      ImageUrl("b", "large", "png"),
      [ImageUrl("d", "", "jpg") EXCEPT !.uuid = "u1"],
      ImageUrl("listing", "", "") }

MediaFields ==
    { [key |-> key, nested |-> nested, value |-> value] :
        key \in FieldKeys, nested \in BOOLEAN, value \in OrderUrls }

\* An object holds a key once
DistinctTopKeys(fields) ==
    \A i, j \in 1..Len(fields) :
        (i # j /\ ~fields[i].nested /\ ~fields[j].nested) => fields[i].key # fields[j].key

\* Orders with up to MaxFields image fields, and one with more photos than the cap
MediaOrders ==
    { [id |-> "A", created_at |-> T1, fields |-> fields] :
        fields \in { f \in UNION { [1..n -> MediaFields] : n \in 0..MaxFields } :
                        DistinctTopKeys(f) } }
    \cup { [id |-> "A", created_at |-> T1,
            fields |-> [i \in 1..(MaxPhotos + 2) |->
                          [key |-> "photo", nested |-> TRUE,
                           value |-> ManyPhotos(MaxPhotos + 2)[i]]]] }

InitMedia ==
    /\ now = 0
    /\ disk \in LegacySnapshots \cup {NoFile}
    /\ shootsCache = LoadShootsCache(disk)
    /\ lastFetched = shootsCache
    /\ shootsRefreshPromise = NoPromise
    /\ runs = {}
    /\ reqs = <<>>
    /\ response = NoResponse
    /\ settled = NoSettle
    /\ handled = NoHandled
    /\ API_TOKEN = "token"
    /\ fetched = <<>>
    /\ ProviderAtRest
    /\ NormalizerAtRest
    /\ PipelineAtRest

\* A request; the one page of a refresh, holding one order; the responses of
\* the handlers that awaited it
NextMedia ==
    \/ ~Completed /\ GetShoots("absent", "absent")
    \/ \E run \in runs, order \in MediaOrders : FetchCompletes(run, <<order>>, TRUE)
    \/ Resume

SpecMedia == InitMedia /\ [][NextMedia]_vars

----------------------------------------------------------------------------
(* normalizeShoot and sanitizeShootMedia as functions: one call on an order, *)
(* one on a shoot, and a second sanitizeShootMedia on what either returned *)

\* Image URLs of two keys, each in versions of different and of equal score:
\* for key "a" scores 0, 0, -20 and 20, for UUID u1 scores 0, -20 and 40; and a
\* web page
ScoredUrls ==
    { ImageUrl("a", "", "jpg"),
      [ImageUrl("a", "", "jpg") EXCEPT !.sized = TRUE],
      ImageUrl("a", "thumb", "jpg"),
      ImageUrl("a", "large", "jpg"),
      [ImageUrl("d", "", "jpg") EXCEPT !.uuid = "u1"],
      [ImageUrl("e", "small", "webp") EXCEPT !.uuid = "u1", !.host = "img"],
      [ImageUrl("a_original", "", "jpg") EXCEPT !.uuid = "u1"],
      ImageUrl("listing", "", "") }

\* Orders holding up to MaxCollected of these, each in an object of its own, in
\* every order Object.entries can visit them, after no `url` property or one
\* that is a web page of UUID u1
ScoredOrders ==
    { [id |-> "A", created_at |-> T1,
       fields |-> hero \o [i \in 1..Len(urls) |->
                             [key |-> "photo", nested |-> TRUE, value |-> urls[i]]]] :
        hero \in { <<>>,
                   <<[key |-> "url", nested |-> FALSE,
                      value |-> [ImageUrl("tour", "", "") EXCEPT !.uuid = "u1"]]>> },
        urls \in UNION { [1..n -> ScoredUrls] : n \in 0..MaxCollected } }

\* What an address property can hold: nothing, a string, the empty string, an
\* object with address pieces, and objects without any, one of them with a
\* JSON text longer than the excerpt
AddressValues ==
    { NoValue,
      Text("1 Main St"),
      Text(""),
      Obj(NoValue, <<"1 Main St", "", "", "Austin", "TX", "78701">>,
          "{\"street_address\":\"1 Main St\",\"city\":\"Austin\",\"state\":\"TX\",\"postal_code\":\"78701\"}"),
      Obj(NoValue, NoParts, "{\"unit\":\"4\"}"),
      Obj(NoValue, NoParts,
          "{\"directions\":\"" \o
          "From the highway take the second exit, follow the river road for three " \o
          "miles, then turn left at the red barn and continue to the end of the lane" \o
          "\"}") }

\* Orders with any of these as order.address, and with order.listing absent
\* or an object with any of these as its address property, with or without
\* address pieces of its own
AddressOrders ==
    { [id |-> "A", created_at |-> T1, fields |-> <<>>,
       listing |-> listing, address |-> address] :
        listing \in { NoValue }
            \cup { Obj(inner, NoParts, "{\"id\":\"L1\"}") : inner \in AddressValues }
            \cup { Obj(inner, <<"", "2 Oak Ave", "", "Dallas", "", "">>,
                       "{\"street\":\"2 Oak Ave\",\"city\":\"Dallas\"}") :
                     inner \in AddressValues },
        address \in AddressValues }

\* The argument of the call: an order for normalizeShoot, a shoot for
\* sanitizeShootMedia
InitNormalize ==
    /\ CacheAtRest
    /\ API_TOKEN = "token"
    /\ ProviderAtRest
    /\ PipelineAtRest
    /\ response = NoResponse
    /\ record \in
          { [kind |-> "order", value |-> order] :
              order \in MediaOrders \cup ScoredOrders \cup AddressOrders }
          \cup { [kind |-> "shoot", value |-> LegacyShoot(thumbnail, photos)] :
                   thumbnail \in MediaUrls \cup {EmptyUrl}, photos \in PhotoLists }
    /\ result = NoResult

\* normalizeShoot(order), with the map collectImageUrls(order) built and the
\* value pickImage(order) returned on the way
NormalizeOrder ==
    /\ record.kind = "order"
    /\ result = NoResult
    /\ result' = [step |-> "normalized",
                  collected |-> CollectImageUrls(record.value.fields, <<>>),
                  picked |-> PickImage(record.value.fields),
                  shoot |-> NormalizeShoot(record.value)]
    /\ UNCHANGED <<cacheVars, providerVars, pipelineVars, response, record>>

\* sanitizeShootMedia(shoot)
SanitizeShoot ==
    /\ record.kind = "shoot"
    /\ result = NoResult
    /\ result' = [step |-> "sanitized", shoot |-> SanitizeShootMedia(record.value)]
    /\ UNCHANGED <<cacheVars, providerVars, pipelineVars, response, record>>

\* sanitizeShootMedia on the shoot the first call returned, as handleShoots
\* applies it to a cached shoot
SanitizeAgain ==
    /\ result.step \in {"normalized", "sanitized"}
    /\ result' = [step |-> "resanitized", once |-> result.shoot,
                  shoot |-> SanitizeShootMedia(result.shoot)]
    /\ UNCHANGED <<cacheVars, providerVars, pipelineVars, response, record>>

NextNormalize ==
    \/ NormalizeOrder
    \/ SanitizeShoot
    \/ SanitizeAgain

SpecNormalize == InitNormalize /\ [][NextNormalize]_vars

----------------------------------------------------------------------------
(* The order of the shoots of a refresh: orders whose three timestamps are *)
(* set, null, or no date *)

\* Orders of one id: no timestamp at all; created_at alone; updated_at alone;
\* scheduled_at later or earlier than the others; scheduled_at no date
TimedOrders(id) ==
    { [id |-> id, fields |-> <<>>, scheduled_at |-> times[1],
       updated_at |-> times[2], created_at |-> times[3]] :
        times \in { <<NullTime, NullTime, NullTime>>,
                    <<NullTime, NullTime, T1>>,
                    <<NullTime, NullTime, T2>>,
                    <<NullTime, T2, NullTime>>,
                    <<ToISOString(3000), NullTime, T1>>,
                    <<T1, ToISOString(3000), T2>>,
                    <<GarbageTime, T2, T1>>,
                    <<GarbageTime, NullTime, NullTime>> } }

\* A request; a full first page with orders A and B; a last page, empty or
\* with an order C; the responses of the handlers that awaited the refresh
NextSort ==
    \/ ~Completed /\ GetShoots("absent", "absent")
    \/ \E run \in runs, a \in TimedOrders("A"), b \in TimedOrders("B") :
          PageArrives(run, <<a, b>>)
    \/ \E run \in runs, items \in {<<>>} \cup { <<c>> : c \in TimedOrders("C") } :
          FetchCompletes(run, items, TRUE)
    \/ Resume

SpecSort == InitFetch /\ [][NextSort]_vars

----------------------------------------------------------------------------
(* Properties *)

\* The shoots a response built from `cache` for ?limit=`limit` carries
Served(cache, limit) ==
    SliceTo([i \in 1..Len(cache.shoots) |-> SanitizeShootMedia(cache.shoots[i])],
            PageSizeOf(limit))

RequestHandled == handled.refresh # "none"
Responded == response.status # 0

\* C1: single-flight. At most one fetchLatestShoots run is in flight, it is the
\* one shootsRefreshPromise stands for, every awaiting handler awaits it, and a
\* call made while it is in flight starts no new run.
C1_SingleFlight ==
    /\ Cardinality(runs) <= 1
    /\ \A run \in runs : run.id = shootsRefreshPromise
    /\ \A i \in 1..Len(reqs) :
          reqs[i].pc = "awaiting" =>
             /\ reqs[i].awaiting = shootsRefreshPromise
             /\ \E run \in runs : run.id = reqs[i].awaiting
    /\ RequestHandled /\ handled.joined => ~handled.started

C1_Witness ==
    /\ RequestHandled /\ handled.joined /\ ~handled.started
    /\ Cardinality(runs) = 1
    /\ Len(reqs) = 2
    /\ \A i \in 1..2 : reqs[i].pc = "awaiting"

\* C2: when the provider fetch of a refresh fails, on whatever page, the cache
\* and the snapshot file are what they were when that refresh started.
C2_FailureKeepsCache ==
    settled.outcome = "fetch_failed" =>
        /\ shootsCache = settled.cache0
        /\ disk = settled.disk0

C2_Witness ==
    /\ settled.outcome = "fetch_failed"
    /\ settled.page = 2
    /\ shootsCache.shoots # <<>>
    /\ disk.kind = "json"

\* C3: a failed refresh never reaches the HTTP caller: every response written
\* is a 200, and the response of a handler that awaited a failed refresh
\* carries the cache as it was before that refresh.
C3_FailureNotSurfaced ==
    /\ response.status \in {0, 200}
    /\ (response.status = 200 /\ response.awaited /\ settled.outcome = "fetch_failed") =>
          /\ response.updated_at = settled.cache0.updated_at
          /\ response.shoots = Served(settled.cache0, response.limit)

C3_Witness ==
    /\ response.status = 200
    /\ response.awaited
    /\ settled.outcome = "fetch_failed"

\* C4: a request carrying refresh=1 always triggers a refresh.
C4_ForceRefresh ==
    (RequestHandled /\ handled.refresh = "1") => handled.called

\* C5: a request without the refresh flag that finds the cache within its TTL
\* triggers no refresh, whatever the cache holds.
C5_FreshNoRefresh ==
    (RequestHandled /\ handled.refresh = "absent" /\ handled.sawFresh) =>
        ~handled.called

\* C6: a request that finds the cache never populated triggers a refresh and
\* writes no response before that refresh has settled; every awaiting handler
\* awaits the one refresh in flight; and the response written after a
\* successful refresh carries the shoots that refresh fetched.
C6_ColdAwaits ==
    /\ (RequestHandled /\ handled.sawEmpty /\ handled.sawNull) =>
          /\ handled.called
          /\ handled.awaited
          /\ ~Responded
          /\ shootsRefreshPromise # NoPromise
    /\ \A i \in 1..Len(reqs) :
          reqs[i].pc = "awaiting" =>
             /\ reqs[i].awaiting = shootsRefreshPromise
             /\ \E run \in runs : run.id = reqs[i].awaiting
    /\ (Responded /\ response.awaited) =>
          /\ settled.outcome # "none"
          /\ \A run \in runs : run.id # settled.id
          /\ settled.outcome = "ok" =>
                /\ response.status = 200
                /\ response.updated_at = lastFetched.updated_at
                /\ response.updated_at = ToISOString(now)
                /\ response.shoots = Served(lastFetched, response.limit)

C6_Witness ==
    /\ response.status = 200
    /\ response.awaited
    /\ settled.outcome = "ok"
    /\ settled.cache0 = EmptyCache
    /\ Len(response.shoots) = 2
    /\ MicrotasksPending

C8_StaleRefreshesBeforeResponding ==
    (RequestHandled /\ ~handled.sawFresh) => (handled.awaited /\ ~Responded)

\* C9: the `fresh` value of a response is true exactly when updated_at parses
\* and now - updated_at is at most the TTL: true at TTL - 1 s and at TTL, false
\* at TTL + 1 s, false for null and for an unparseable updated_at.
C9_FreshIffWithinTtl ==
    response.status = 200 =>
        LET u == response.updated_at
            age == now - u.ms
        IN /\ u.kind # "iso" => ~response.fresh
           /\ u.kind = "iso" =>
                 /\ response.fresh <=> (age <= SHOOTS_CACHE_TTL_SECONDS * 1000)
                 /\ age = (SHOOTS_CACHE_TTL_SECONDS - 1) * 1000 => response.fresh
                 /\ age = SHOOTS_CACHE_TTL_SECONDS * 1000 => response.fresh
                 /\ age = (SHOOTS_CACHE_TTL_SECONDS + 1) * 1000 => ~response.fresh

C9_Witness ==
    /\ response.status = 200
    /\ response.updated_at.kind = "iso"
    /\ now - response.updated_at.ms = SHOOTS_CACHE_TTL_SECONDS * 1000
    /\ response.fresh

\* C10: the cache is always the value loaded at startup or the complete result
\* of a finished fetchLatestShoots run, and so is what every response carries,
\* also while a multi-page refresh is between two pages.
C10_AtomicReplacement ==
    /\ shootsCache = lastFetched
    /\ \A run \in runs : shootsCache = run.cache0
    /\ response.status = 200 =>
          /\ response.updated_at = lastFetched.updated_at
          /\ response.shoots = Served(lastFetched, response.limit)

C10_Witness ==
    /\ response.status = 200
    /\ ~response.awaited
    /\ \E run \in runs :
          /\ run.page = 2
          /\ Len(run.ordersById) = 2
          /\ Len(shootsCache.shoots) = 1

\* C11: every cache replacement is persisted. When a refresh that replaced the
\* cache has settled (its in-flight marker is cleared), the snapshot file holds
\* the same {updated_at, shoots, source_count} as the cache, also when
\* writeFileSync threw.
C11_ReplacementPersisted ==
    settled.outcome \in {"ok", "save_failed"} =>
        /\ shootsRefreshPromise = NoPromise
        /\ disk = JsonFile(shootsCache)

\* The index of the last row of `rows` that normalizes to `id`, 0 if none
LastOccurrence(rows, id) ==
    LET at == { i \in 1..Len(rows) : NormalizeShoot(rows[i]).id = id }
    IN IF at = {} THEN 0 ELSE CHOOSE i \in at : \A j \in at : j <= i

DistinctIds(shoots) ==
    \A i, j \in 1..Len(shoots) : i # j => shoots[i].id # shoots[j].id

C13_NoTokenIsAnError ==
    (API_TOKEN = "" /\ Responded /\ response.awaited) => response.status >= 400

\* The order a negotiation is to try: the caller's include (when it has one),
\* each fallback in list order, then no include parameter
ExpectedOrder ==
    (IF call.include = "" THEN <<>> ELSE <<call.include>>)
        \o call.fallbackIncludes \o <<"">>

Signature(message) ==
    Includes(message, "Requested include(s)") \/ Includes(message, "not allowed")

\* C14: the attempts of a negotiation carry, in order, the caller's include,
\* each fallback and then no include; every attempt but the last one failed
\* with the rejection signature; a success is the last attempt and is returned;
\* and when all attempts down to the one with no include failed, the error
\* thrown is that of the last attempt.
C14_NegotiationOrder ==
    call.state # "none" =>
        /\ Len(attempts) <= Len(ExpectedOrder)
        /\ \A k \in 1..Len(attempts) :
              /\ attempts[k].include = ExpectedOrder[k]
              /\ k < Len(attempts) =>
                    /\ attempts[k].error # NoError
                    /\ Signature(attempts[k].error)
              /\ attempts[k].error = NoError =>
                    /\ k = Len(attempts)
                    /\ call.state = "returned"
        /\ call.state = "returned" =>
              /\ attempts # <<>>
              /\ attempts[Len(attempts)].error = NoError
        /\ call.state = "attempting" => Len(attempts) < Len(ExpectedOrder)
        /\ (Len(attempts) = Len(ExpectedOrder)
              /\ attempts[Len(attempts)].error # NoError) =>
                 /\ call.state = "thrown"
                 /\ call.thrown = attempts[Len(attempts)].error

\* Every candidate of the /orders call, the one with no include too, was
\* rejected, the last two with different errors: the last error is thrown
C14_Witness ==
    /\ call.state = "thrown"
    /\ Len(attempts) = 4
    /\ attempts[4].include = ""
    /\ attempts[1].include = "listing,appointments,items,tags"
    /\ attempts[3].error # attempts[4].error
    /\ Signature(attempts[4].error)
    /\ call.thrown = attempts[4].error

\* C15: an attempt that fails with an error not matching the rejection
\* signature is the last attempt of its negotiation: the call throws that
\* error and sends no further request.
C15_OtherErrorEndsNegotiation ==
    \A k \in 1..Len(attempts) :
        (attempts[k].error # NoError /\ ~Signature(attempts[k].error)) =>
            /\ k = Len(attempts)
            /\ call.state = "thrown"
            /\ call.thrown = attempts[k].error

\* A 500 on the second attempt, after one include rejection
C15_Witness ==
    /\ call.state = "thrown"
    /\ Len(attempts) = 2
    /\ Len(call.includeCandidates) > 2
    /\ attempts[2].sent
    /\ Signature(attempts[1].error)
    /\ call.thrown = "Aryeo API 500: Internal Server Error"

WebhookAnswered ==
    /\ "endpoint" \in DOMAIN response
    /\ response.endpoint = "webhook"

LeadsAnswered ==
    /\ "endpoint" \in DOMAIN response
    /\ response.endpoint = "leads"

\* C16: a webhook POST is answered 401 exactly when a secret is configured and
\* the x-webhook-secret header differs from it, 400 when its body is no JSON
\* (and the secret does not reject it); and a POST answered 401 or 400 leaves
\* the pipeline log as it was.
C16_WebhookAcceptance ==
    WebhookAnswered =>
        LET delivery == response.delivery
            mismatch == /\ WEBHOOK_SECRET # ""
                        /\ delivery.headerSecret # WEBHOOK_SECRET
        IN /\ response.status = 401 <=> mismatch
           /\ (delivery.body.kind = "invalid" /\ ~mismatch) => response.status = 400
           /\ response.status \in {400, 401} => pipeline = response.logBefore

\* C17: the pipeline log is append-only. Every step leaves the lines already
\* in the log where they were and adds at most one line at the end; it adds one
\* exactly when it accepts a webhook (answers 200), and that line is the
\* complete record of that delivery's payload.
C17_AppendOnly ==
    [][ LET before == pipeline.lines
            after == pipeline'.lines
        IN /\ Len(after) \in {Len(before), Len(before) + 1}
           /\ SubSeq(after, 1, Len(before)) = before
           /\ (Len(after) = Len(before) + 1) <=>
                 (WebhookAnswered' /\ response'.status = 200)
           /\ (Len(after) = Len(before) + 1) =>
                 /\ pipeline'.exists
                 /\ after[Len(after)].json
                 /\ ParseLine(after[Len(after)]).raw = response'.delivery.body.payload
                 /\ ParseLine(after[Len(after)]).received_at = ToISOString(now)
      ]_vars

\* Two deliveries were being read at the same time and both were accepted,
\* after a log that held a damaged line
C17_Witness ==
    /\ WebhookAnswered
    /\ response.status = 200
    /\ posted = 2
    /\ deliveries = {}
    /\ Len(pipeline.lines) = 5
    /\ pipeline.lines[2] = GarbageLine
    /\ pipeline.lines[4] # pipeline.lines[5]

\* What a read is to return for the line it selected
EntryOf(line, entry) ==
    IF line.json
    THEN entry = line.value
    ELSE /\ "parse_error" \in DOMAIN entry
         /\ entry.parse_error
         /\ entry.raw = line.raw

\* The response of a read carries the last k lines of the log, newest first,
\* a damaged line as a parse_error entry at its place, and count = k
ReturnsLast(k) ==
    LET lines == response.logBefore.lines
    IN /\ Len(response.events) = k
       /\ response.count = k
       /\ \A i \in 1..Len(response.events) :
             /\ Len(lines) + 1 - i \in 1..Len(lines)
             /\ EntryOf(lines[Len(lines) + 1 - i], response.events[i])

NumericLimit ==
    /\ LeadsAnswered
    /\ response.limit \in {"absent", "-5", "0", "1", "2", "1000", "5000"}

RequestedLimit ==
    CASE response.limit = "absent" -> 200
      [] response.limit = "-5" -> -5
      [] response.limit = "0" -> 0
      [] response.limit = "1" -> 1
      [] response.limit = "2" -> 2
      [] response.limit = "1000" -> 1000
      [] response.limit = "5000" -> 5000

\* C18 as stated: a read with limit N (N >= 0) returns the last
\* min(N, number of lines) records, newest first, unparseable lines as
\* parse_error entries at their place, and the count is the number of lines
\* selected.
C18_ReadLastN ==
    (NumericLimit /\ RequestedLimit >= 0) =>
        ReturnsLast(Min(RequestedLimit, Len(response.logBefore.lines)))

\* C18 as amended: a read with a numeric limit N returns the last
\* min(max(1, min(N, 1000)), number of lines) records, newest first,
\* unparseable lines as parse_error entries at their place, and the count is
\* the number of lines selected.
C18_ReadLastCappedN ==
    NumericLimit =>
        ReturnsLast(Min(Max(1, Min(RequestedLimit, 1000)),
                        Len(response.logBefore.lines)))

\* limit=2 on a log whose second of three lines is damaged
C18_Witness ==
    /\ LeadsAnswered
    /\ response.limit = "2"
    /\ response.count = 2
    /\ response.logBefore.lines[2] = GarbageLine
    /\ response.events[1] = PastEvent(3)
    /\ "parse_error" \in DOMAIN response.events[2]

ShootsAnswered == response.status = 200 /\ "shoots" \in DOMAIN response

\* C19: whatever the limit parameter holds, GET /api/shoots returns at most
\* 100 shoots and at least one when the cache holds any, 24 (or all, if fewer)
\* when limit is absent; and GET /api/pipeline/leads returns at most 1000
\* events, 200 (or all, if fewer) when limit is absent.
C19_ResultSizeCaps ==
    /\ ShootsAnswered =>
          LET n == Len(shootsCache.shoots)
              k == Len(response.shoots)
          IN /\ k <= 100
             /\ n >= 1 => k >= 1
             /\ response.limit = "absent" => k = Min(24, n)
    /\ LeadsAnswered =>
          LET n == Len(response.logBefore.lines)
              k == Len(response.events)
          IN /\ k <= 1000
             /\ response.limit = "absent" => k = Min(200, n)

\* The photos of a shoot hold no URL with the key of its thumbnail, no two
\* URLs with one key, and at most 24 entries
CleanMedia(shoot) ==
    /\ Len(shoot.photos) <= 24
    /\ \A i \in 1..Len(shoot.photos) :
          CanonicalImageKey(shoot.photos[i]) # CanonicalImageKey(shoot.thumbnail_url)
    /\ \A i, j \in 1..Len(shoot.photos) :
          i # j => CanonicalImageKey(shoot.photos[i]) # CanonicalImageKey(shoot.photos[j])

\* C20: every shoot normalizeShoot produced for a refresh, and every shoot of
\* a GET /api/shoots response, also one served from a snapshot that was saved
\* unsanitized, has photos with no key equal to its thumbnail's key, no key
\* twice, and at most 24 entries.
C20_MediaSanitized ==
    /\ Completed =>
          \A i \in 1..Len(shootsCache.shoots) : CleanMedia(shootsCache.shoots[i])
    /\ ShootsAnswered =>
          \A i \in 1..Len(response.shoots) : CleanMedia(response.shoots[i])

\* A snapshot shoot with a web page as thumbnail, a duplicate among its photos
\* and more photos than the cap: served with its first photo as thumbnail and
\* the next 23 as photos
C20_Witness ==
    /\ ShootsAnswered
    /\ disk.kind = "json"
    /\ Len(response.shoots) = 1
    /\ LET raw == disk.value.shoots[1]
           out == response.shoots[1]
       IN /\ Len(raw.photos) = MaxPhotos + 3
          /\ raw.thumbnail_url.http
          /\ ~LooksLikeImageUrl(raw.thumbnail_url)
          /\ ~CleanMedia(raw)
          /\ out.thumbnail_url = raw.photos[1]
          /\ Len(out.photos) = MaxPhotos - 1

\* The fields of the order normalized whose value is an image URL of this key
Candidates(key) ==
    { i \in 1..Len(record.value.fields) :
        /\ LooksLikeImageUrl(record.value.fields[i].value)
        /\ CanonicalImageKey(record.value.fields[i].value) = key }

C22_FetchAllBounded ==
    /\ [](\A run \in runs :
             /\ run.page \in 1..SHOOTS_CACHE_MAX_PAGES
             /\ Len(run.rows) = (run.page - 1) * SHOOTS_CACHE_FETCH_PAGE_SIZE)
    /\ [][\A before \in runs, after \in runs' :
             (before.id = after.id /\ before # after)
                => after.page = before.page + 1]_vars
    /\ [](Completed =>
             /\ settled.page \in 1..SHOOTS_CACHE_MAX_PAGES
             /\ Len(fetched) >= (settled.page - 1) * SHOOTS_CACHE_FETCH_PAGE_SIZE
             /\ Len(fetched) <= settled.page * SHOOTS_CACHE_FETCH_PAGE_SIZE
             /\ (Len(fetched) = settled.page * SHOOTS_CACHE_FETCH_PAGE_SIZE
                   => settled.page = SHOOTS_CACHE_MAX_PAGES))

\* A refresh that stopped at the page cap, every page full
C22_Witness ==
    /\ Completed
    /\ settled.page = SHOOTS_CACHE_MAX_PAGES
    /\ Len(fetched) = SHOOTS_CACHE_MAX_PAGES * SHOOTS_CACHE_FETCH_PAGE_SIZE

\* The sort timestamp as the claim defines it: the first non-null of
\* scheduled_at, updated_at, created_at, 0 if all are null
FirstNonNull(shoot) ==
    IF Truthy(shoot.scheduled_at) THEN shoot.scheduled_at
    ELSE IF Truthy(shoot.updated_at) THEN shoot.updated_at
    ELSE IF Truthy(shoot.created_at) THEN shoot.created_at
    ELSE ToISOString(0)

\* Shoots in non-increasing order of that timestamp, as far as it is a date
NewestFirst(shoots) ==
    \A i, j \in 1..Len(shoots) :
        (/\ i < j
         /\ ~ParseDate(FirstNonNull(shoots[i])).nan
         /\ ~ParseDate(FirstNonNull(shoots[j])).nan)
            => ParseDate(FirstNonNull(shoots[i])).ms >= ParseDate(FirstNonNull(shoots[j])).ms

\* C23: in every cache snapshot a refresh produced, and in the response of a
\* handler that awaited it, the shoots are in non-increasing order of their
\* sort timestamp, the first non-null of scheduled_at, updated_at, created_at
\* (0 if all are null)
C23_NewestFirst ==
    /\ Completed => NewestFirst(shootsCache.shoots) /\ NewestFirst(disk.value.shoots)
    /\ (ShootsAnswered /\ response.awaited) => NewestFirst(response.shoots)

\* B, fetched after A and dated by its updated_at alone, is served before A
C23_Witness ==
    /\ ShootsAnswered
    /\ response.awaited
    /\ \E i, j \in 1..Len(response.shoots) :
          /\ i < j
          /\ response.shoots[i].id = "B"
          /\ response.shoots[j].id = "A"
          /\ ~Truthy(response.shoots[i].scheduled_at)
          /\ FirstNonNull(response.shoots[i]) = response.shoots[i].updated_at
          /\ ~ParseDate(FirstNonNull(response.shoots[j])).nan
          /\ ParseDate(FirstNonNull(response.shoots[i])).ms
                > ParseDate(FirstNonNull(response.shoots[j])).ms

\* The candidates collected, or those of them with another key than `url`,
\* that no other of them outscores
TopScored(collected, url) ==
    { collected[e].url : e \in
        { e \in 1..Len(collected) :
            /\ collected[e].key # CanonicalImageKey(url)
            /\ \A f \in 1..Len(collected) :
                  collected[f].key # CanonicalImageKey(url)
                     => collected[f].score <= collected[e].score } }

\* C24, as claimed: normalizeShoot's thumbnail_url is the result of pickImage
\* whenever that is not empty, and the highest-scored photo collected (none:
\* empty) only when pickImage found nothing
C24_HeroWheneverFound ==
    result.step = "normalized" =>
        IF result.picked # EmptyUrl
        THEN result.shoot.thumbnail_url = result.picked
        ELSE IF result.collected = <<>>
        THEN result.shoot.thumbnail_url = EmptyUrl
        ELSE result.shoot.thumbnail_url \in TopScored(result.collected, EmptyUrl)

\* C24, amended: normalizeShoot's thumbnail_url is the result of pickImage
\* whenever that is an image URL; when pickImage found nothing or a URL that
\* is no image URL, it is the highest-scored photo collected whose canonical
\* key differs from that result's, and empty if there is none
C24_HeroWhenImage ==
    result.step = "normalized" =>
        IF LooksLikeImageUrl(result.picked)
        THEN result.shoot.thumbnail_url = result.picked
        ELSE IF TopScored(result.collected, result.picked) = {}
        THEN result.shoot.thumbnail_url = EmptyUrl
        ELSE result.shoot.thumbnail_url \in TopScored(result.collected, result.picked)

\* pickImage found a web page whose key a collected photo shares, and the
\* thumbnail is a photo of another key
C24_Witness ==
    /\ result.step = "normalized"
    /\ result.picked # EmptyUrl
    /\ ~LooksLikeImageUrl(result.picked)
    /\ \E e \in 1..Len(result.collected) :
          result.collected[e].key = CanonicalImageKey(result.picked)
    /\ result.shoot.thumbnail_url # EmptyUrl
    /\ result.shoot.thumbnail_url \in TopScored(result.collected, result.picked)

\* The address the claim's order of resolution gives a value: the pieces of a
\* structured object joined, a string as it is, otherwise an excerpt of the
\* JSON text of at most MaxExcerpt characters
Resolved(raw, address) ==
    IF raw.kind = "string" THEN address = raw.text
    ELSE IF SelectSeq(raw.parts, LAMBDA piece : piece # "") # <<>>
    THEN address = Join(SelectSeq(raw.parts, LAMBDA piece : piece # ""), ", ")
    ELSE /\ Len(address) <= MaxExcerpt
         /\ address = SubSeq(raw.json, 1, Len(address))
         /\ Len(address) = MaxExcerpt \/ address = raw.json

\* C25: the address of a normalized order is resolved in the order structured
\* address object (pieces joined), raw string, JSON excerpt of at most 120
\* characters, "Address unavailable"; an order with no listing and no address
\* gets the address "Address unavailable"
C25_AddressResolution ==
    result.step = "normalized" =>
        LET listing == Property(record.value, "listing", NoValue)
            address == Property(record.value, "address", NoValue)
        IN IF ~IsTruthy(listing) /\ ~IsTruthy(address)
           THEN result.shoot.address = "Address unavailable"
           ELSE Resolved(AddressSource(listing, address), result.shoot.address)

\* C27: sanitizeShootMedia applied to a shoot it returned, or to a shoot
\* normalizeShoot returned, gives that shoot back: GET /api/shoots serves the
\* shoots of a refresh as normalizeShoot stored them
C27_SanitizeIdempotent ==
    result.step = "resanitized" => result.shoot = result.once

\* A shoot whose thumbnail was no image URL and whose photos were cut: the
\* first call replaced the thumbnail by a photo and dropped photos
C27_Witness ==
    /\ result.step = "resanitized"
    /\ record.kind = "shoot"
    /\ record.value.thumbnail_url # EmptyUrl
    /\ ~LooksLikeImageUrl(record.value.thumbnail_url)
    /\ result.once.thumbnail_url \in { record.value.photos[i] :
                                         i \in 1..Len(record.value.photos) }
    /\ Len(result.once.photos) > 0
    /\ Len(result.once.photos) < Len(record.value.photos) - 1

\* C26: a refresh that settles, by success, provider failure or persist
\* failure, clears the in-flight marker; a refresh in flight settles in the
\* end, so the marker does not stay set; and a request that finds the cache
\* empty or stale and no refresh in flight starts a new fetch
C26_NoRefreshLockout ==
    /\ [](settled.outcome # "none" =>
             /\ shootsRefreshPromise = NoPromise
             /\ \A run \in runs : run.id # settled.id)
    /\ (InFlight(shootsRefreshPromise) ~> ~InFlight(shootsRefreshPromise))
    /\ []((/\ RequestHandled
           /\ handled.sawEmpty \/ ~handled.sawFresh
           /\ ~handled.joined)
             => handled.started /\ InFlight(shootsRefreshPromise))

\* A refresh that returned no shoots has settled at a later instant than the
\* process started at, and the next request, finding the cache empty and no
\* refresh in flight, starts a new fetch
C26_Witness ==
    /\ RequestHandled
    /\ handled.sawEmpty
    /\ ~handled.joined
    /\ handled.started
    /\ shootsCache.updated_at.kind = "iso"
    /\ shootsCache.updated_at.ms > 0
    /\ \E run \in runs : run.id = shootsRefreshPromise /\ run.page = 1

====
